---- MODULE Spec2Model ----
(***************************************************************************)
(* Model of the per-peer handshake state of wireguard-rs                   *)
(* (src/handshake/peer.rs): the three spin-locked cells of a Peer and the  *)
(* operations get_state, set_state and check_replay_flood, run by several  *)
(* workers one lock or one statement at a time; and of the status          *)
(* serialization of the configuration interface                            *)
(* (src/configuration/uapi/get.rs).                                        *)
(***************************************************************************)
EXTENDS Integers, Sequences, FiniteSets, TLC

(* ------------------------------ bounds -------------------------------- *)

NumWorkers == 2
MaxSender == 2
MaxStamp == 1
MaxRounds == 1
MaxPeers == 2
MaxIps == 1
MaxRoom == 5

(* ------------------------- program constants -------------------------- *)

\* Duration::from_millis(20); the clock of the model counts milliseconds
TIME_BETWEEN_INITIATIONS == 20

(* ----------------------------- data types ----------------------------- *)

Workers == 1..NumWorkers

\* Option<T>: None is the empty tuple, Some(v) the one-element tuple
None == <<>>
Some(v) == <<v>>
IsSome(o) == o # <<>>
Unwrap(o) == o[1]

\* x25519_dalek clamps the scalar bytes when a StaticSecret is built
Clamp(b) == b - (b % 2)
StaticSecret_from(bytes) == Clamp(bytes)
to_bytes(sk) == sk

Senders == 1..MaxSender

\* what the handshake core hands to set_state with the sender id i it was
\* assigned: a fresh ephemeral secret and the two accumulators
eph_sk_of(i) == StaticSecret_from(2 * i + 1)
hs_of(i) == 2 * i
ck_of(i) == 2 * i + 1

Reset == [tag |-> "Reset"]
InitiationSent(s, k, h, c) ==
    [tag |-> "InitiationSent", sender |-> s, eph_sk |-> k, hs |-> h, ck |-> c]
State ==
    {Reset} \cup
    {InitiationSent(s, eph_sk_of(s), hs_of(s), ck_of(s)) : s \in Senders}

\* impl Clone for State
Clone(st) ==
    IF st.tag = "Reset"
    THEN Reset
    ELSE InitiationSent(st.sender, StaticSecret_from(to_bytes(st.eph_sk)), st.hs, st.ck)

\* timestamp::TAI64N: the big-endian bytes of a timestamp, as the number they
\* spell
TAI64N == 0..MaxStamp

\* timestamp::compare(old, new): new is strictly greater than old
compare(old, new) == new > old

\* the readings std::time::Instant can give: every multiple of the minimum
\* interval and the millisecond before it
Instants ==
    {k * TIME_BETWEEN_INITIATIONS + d : k \in 0..MaxRounds, d \in {-1, 0}} \cap Nat

\* Instant::elapsed
elapsed(last, clock) == clock - last

(* ------------------------------- state -------------------------------- *)

VARIABLES
    state,                          \* Peer.state: Mutex<State>
    timestamp,                      \* Peer.timestamp: Mutex<Option<TAI64N>>
    last_initiation_consumption,    \* Peer.last_initiation_consumption
    lock,                           \* holder of each of the three mutexes
    now,                            \* the monotonic clock
    pc,                             \* position of each worker
    arg,                            \* the call each worker is in
    ret,                            \* what each worker's call is about to return
    pre,                            \* the cells as the call found them
    calls,                          \* release calls made by the current call
    config,                         \* the configuration serialize is given
    writer,                         \* the writer serialize is given
    io_result                       \* what serialize returned

vars ==
    <<state, timestamp, last_initiation_consumption, lock, now, pc, arg, ret,
      pre, calls, config, writer, io_result>>

uapi == <<config, writer, io_result>>

cells == <<state, timestamp, last_initiation_consumption>>

NoOwner == 0
Mutexes == {"state", "timestamp", "last_initiation_consumption"}

Snapshot ==
    [state |-> state, timestamp |-> timestamp,
     last_initiation_consumption |-> last_initiation_consumption]

NoCall == [op |-> "none"]
Pending == [tag |-> "Pending"]
Unit == [tag |-> "Unit"]
Ok == [tag |-> "Ok"]
Err(e) == [tag |-> "Err", err |-> e]
Returned(st) == [tag |-> "State", st |-> st]

\* no status request is being served
NoRequest ==
    /\ config = [private_key |-> None, listen_port |-> None, fwmark |-> None,
                 peers |-> <<>>]
    /\ writer = [buf |-> <<>>, room |-> None]
    /\ io_result = None

\* Peer::new with the flood marker started at the time of construction
Init_marked ==
    /\ state = Reset
    /\ timestamp = None
    /\ last_initiation_consumption = Some(0)
    /\ lock = [m \in Mutexes |-> NoOwner]
    /\ now = 0
    /\ pc = [w \in Workers |-> "idle"]
    /\ arg = [w \in Workers |-> NoCall]
    /\ ret = [w \in Workers |-> Pending]
    /\ pre = [w \in Workers |-> None]
    /\ calls = [w \in Workers |-> <<>>]
    /\ NoRequest

\* Peer::new
Init ==
    /\ state = Reset
    /\ timestamp = None
    /\ last_initiation_consumption = None
    /\ lock = [m \in Mutexes |-> NoOwner]
    /\ now = 0
    /\ pc = [w \in Workers |-> "idle"]
    /\ arg = [w \in Workers |-> NoCall]
    /\ ret = [w \in Workers |-> Pending]
    /\ pre = [w \in Workers |-> None]
    /\ calls = [w \in Workers |-> <<>>]
    /\ NoRequest

(* ------------------------------ mutexes ------------------------------- *)

\* a lock that does not wait for the holder
Acquire_no_wait(w, m) ==
    lock' = [lock EXCEPT ![m] = w]

\* spin::Mutex::lock: spins until the mutex is free, then takes it
Acquire(w, m) ==
    /\ lock[m] = NoOwner
    /\ lock' = [lock EXCEPT ![m] = w]

\* drop of the guard
Release(w, m) ==
    /\ lock[m] = w
    /\ lock' = [lock EXCEPT ![m] = NoOwner]

Goto(w, l) == pc' = [pc EXCEPT ![w] = l]

\* the call returns: its frame is gone, the worker is free for another call
Return(w) ==
    /\ Goto(w, "idle")
    /\ arg' = [arg EXCEPT ![w] = NoCall]
    /\ ret' = [ret EXCEPT ![w] = Pending]
    /\ pre' = [pre EXCEPT ![w] = None]
    /\ calls' = [calls EXCEPT ![w] = <<>>]

(* ------------------------------- calls -------------------------------- *)

Begin(w, call, first) ==
    /\ pc[w] = "idle"
    /\ Goto(w, first)
    /\ arg' = [arg EXCEPT ![w] = call]
    /\ ret' = [ret EXCEPT ![w] = Pending]
    /\ pre' = [pre EXCEPT ![w] = None]
    /\ calls' = [calls EXCEPT ![w] = <<>>]
    /\ UNCHANGED <<cells, lock, now, uapi>>

call_get_state(w) ==
    Begin(w, [op |-> "get_state"], "get_state_lock")

call_set_state(w, state_new) ==
    Begin(w, [op |-> "set_state", state_new |-> state_new], "set_state_lock")

call_check_replay_flood(w, timestamp_new) ==
    Begin(w, [op |-> "check_replay_flood", timestamp_new |-> timestamp_new],
          "crf_lock_state")

(* ----------------------------- get_state ------------------------------ *)

\* get_state reading the phase without taking its lock
get_state_lock_free(w) ==
    /\ pc[w] = "get_state_lock"
    /\ Goto(w, "get_state_clone")
    /\ pre' = [pre EXCEPT ![w] = Some(Snapshot)]
    /\ UNCHANGED <<cells, lock, now, arg, ret, calls, uapi>>

get_state_lock(w) ==
    /\ pc[w] = "get_state_lock"
    /\ Acquire(w, "state")
    /\ Goto(w, "get_state_clone")
    /\ pre' = [pre EXCEPT ![w] = Some(Snapshot)]
    /\ UNCHANGED <<cells, now, arg, ret, calls, uapi>>

\* get_state moving the phase out of the peer instead of cloning it
get_state_clone_taking(w) ==
    /\ pc[w] = "get_state_clone"
    /\ ret' = [ret EXCEPT ![w] = Returned(Clone(state))]
    /\ state' = Reset
    /\ Goto(w, "get_state_unlock")
    /\ UNCHANGED <<timestamp, last_initiation_consumption, lock, now, arg,
                   pre, calls, uapi>>

get_state_clone(w) ==
    /\ pc[w] = "get_state_clone"
    /\ ret' = [ret EXCEPT ![w] = Returned(Clone(state))]
    /\ Goto(w, "get_state_unlock")
    /\ UNCHANGED <<cells, lock, now, arg, pre, calls, uapi>>

get_state_unlock(w) ==
    /\ pc[w] = "get_state_unlock"
    /\ Release(w, "state")
    /\ Return(w)
    /\ UNCHANGED <<cells, now, uapi>>

\* get_state seen from a caller that keeps the clone: the guard is dropped at
\* the end of the statement and the clone stays with the caller
get_state_keep(w) ==
    /\ pc[w] = "get_state_unlock"
    /\ Release(w, "state")
    /\ Goto(w, "caller_holds")
    /\ pre' = [pre EXCEPT ![w] = None]
    /\ UNCHANGED <<cells, now, arg, ret, calls, uapi>>

\* the caller is done with its clone and drops it
caller_drop(w) ==
    /\ pc[w] = "caller_holds"
    /\ Return(w)
    /\ UNCHANGED <<cells, lock, now, uapi>>

(* ----------------------------- set_state ------------------------------ *)

set_state_lock(w) ==
    /\ pc[w] = "set_state_lock"
    /\ Acquire(w, "state")
    /\ Goto(w, "set_state_write")
    /\ pre' = [pre EXCEPT ![w] = Some(Snapshot)]
    /\ UNCHANGED <<cells, now, arg, ret, calls, uapi>>

\* set_state releasing the sender it overwrites
set_state_write_releasing(w) ==
    /\ pc[w] = "set_state_write"
    /\ state' = arg[w].state_new
    /\ IF state.tag = "InitiationSent"
       THEN calls' = [calls EXCEPT ![w] = Append(calls[w], state.sender)]
       ELSE UNCHANGED calls
    /\ ret' = [ret EXCEPT ![w] = Unit]
    /\ Goto(w, "set_state_unlock")
    /\ UNCHANGED <<timestamp, last_initiation_consumption, lock, now, arg, pre, uapi>>

\* set_state refusing to overwrite a handshake in flight
set_state_write_guarded(w) ==
    /\ pc[w] = "set_state_write"
    /\ state' =
         IF state.tag = "InitiationSent" /\ arg[w].state_new.tag = "InitiationSent"
         THEN state
         ELSE arg[w].state_new
    /\ ret' = [ret EXCEPT ![w] = Unit]
    /\ Goto(w, "set_state_unlock")
    /\ UNCHANGED <<timestamp, last_initiation_consumption, lock, now, arg,
                   pre, calls, uapi>>

set_state_write(w) ==
    /\ pc[w] = "set_state_write"
    /\ state' = arg[w].state_new
    /\ ret' = [ret EXCEPT ![w] = Unit]
    /\ Goto(w, "set_state_unlock")
    /\ UNCHANGED <<timestamp, last_initiation_consumption, lock, now, arg,
                   pre, calls, uapi>>

set_state_unlock(w) ==
    /\ pc[w] = "set_state_unlock"
    /\ Release(w, "state")
    /\ Return(w)
    /\ UNCHANGED <<cells, now, uapi>>

(* ------------------------- check_replay_flood ------------------------- *)

crf_lock_state(w) ==
    /\ pc[w] = "crf_lock_state"
    /\ Acquire(w, "state")
    /\ Goto(w, "crf_lock_timestamp")
    /\ pre' = [pre EXCEPT ![w] = Some(Snapshot)]
    /\ UNCHANGED <<cells, now, arg, ret, calls, uapi>>

\* the second guard taken on the phase mutex again instead of the timestamp
crf_lock_timestamp_relock(w) ==
    /\ pc[w] = "crf_lock_timestamp"
    /\ Acquire(w, "state")
    /\ Goto(w, "crf_lock_lic")
    /\ UNCHANGED <<cells, now, arg, ret, pre, calls, uapi>>

crf_lock_timestamp(w) ==
    /\ pc[w] = "crf_lock_timestamp"
    /\ Acquire(w, "timestamp")
    /\ Goto(w, "crf_lock_lic")
    /\ UNCHANGED <<cells, now, arg, ret, pre, calls, uapi>>

crf_lock_lic(w) ==
    /\ pc[w] = "crf_lock_lic"
    /\ Acquire(w, "last_initiation_consumption")
    /\ Goto(w, "crf_check_replay")
    /\ UNCHANGED <<cells, now, arg, ret, pre, calls, uapi>>

\* the early return: the result is fixed, the guards are dropped next
Deny(w, e) ==
    /\ ret' = [ret EXCEPT ![w] = Err(e)]
    /\ Goto(w, "crf_drop_lic")

\* the comparison with its arguments swapped: only a strictly older candidate
\* is denied
replay_denied_swapped(w) ==
    /\ IsSome(timestamp)
    /\ compare(arg[w].timestamp_new, Unwrap(timestamp))

replay_denied(w) ==
    /\ IsSome(timestamp)
    /\ ~compare(Unwrap(timestamp), arg[w].timestamp_new)

\* the replay check left out
crf_check_replay_skipped(w) ==
    /\ pc[w] = "crf_check_replay"
    /\ Goto(w, "crf_check_flood")
    /\ UNCHANGED <<cells, lock, now, arg, ret, pre, calls, uapi>>

\* the two checks in the other order: the flood check first
crf_check_replay_flood_first(w) ==
    /\ pc[w] = "crf_check_replay"
    /\ IF /\ IsSome(last_initiation_consumption)
          /\ elapsed(Unwrap(last_initiation_consumption), now) < TIME_BETWEEN_INITIATIONS
       THEN Deny(w, "InitiationFlood")
       ELSE IF replay_denied(w)
            THEN Deny(w, "OldTimestamp")
            ELSE Goto(w, "crf_check_flood") /\ UNCHANGED ret
    /\ UNCHANGED <<cells, lock, now, arg, pre, calls, uapi>>

crf_check_replay(w) ==
    /\ pc[w] = "crf_check_replay"
    /\ IF replay_denied(w)
       THEN Deny(w, "OldTimestamp")
       ELSE Goto(w, "crf_check_flood") /\ UNCHANGED ret
    /\ UNCHANGED <<cells, lock, now, arg, pre, calls, uapi>>

\* the interval compared with <= instead of <
flood_denied_inclusive(w) ==
    /\ IsSome(last_initiation_consumption)
    /\ elapsed(Unwrap(last_initiation_consumption), now) <= TIME_BETWEEN_INITIATIONS

flood_denied(w) ==
    /\ IsSome(last_initiation_consumption)
    /\ elapsed(Unwrap(last_initiation_consumption), now) < TIME_BETWEEN_INITIATIONS

\* the phase reset before the flood check instead of after it
crf_check_flood_resetting(w) ==
    /\ pc[w] = "crf_check_flood"
    /\ state' = Reset
    /\ IF flood_denied(w)
       THEN Deny(w, "InitiationFlood")
       ELSE Goto(w, "crf_reset_state") /\ UNCHANGED ret
    /\ UNCHANGED <<timestamp, last_initiation_consumption, lock, now, arg, pre,
                   calls, uapi>>

\* the superseded session released before the flood check instead of after it
crf_check_flood_releasing(w) ==
    /\ pc[w] = "crf_check_flood"
    /\ IF state.tag = "InitiationSent"
       THEN calls' = [calls EXCEPT ![w] = Append(calls[w], state.sender)]
       ELSE UNCHANGED calls
    /\ IF flood_denied(w)
       THEN Deny(w, "InitiationFlood")
       ELSE Goto(w, "crf_update_state") /\ UNCHANGED ret
    /\ UNCHANGED <<cells, lock, now, arg, pre, uapi>>

crf_check_flood(w) ==
    /\ pc[w] = "crf_check_flood"
    /\ IF flood_denied(w)
       THEN Deny(w, "InitiationFlood")
       ELSE Goto(w, "crf_reset_state") /\ UNCHANGED ret
    /\ UNCHANGED <<cells, lock, now, arg, pre, calls, uapi>>

\* Device::release(sender): the registry records the id
device_release(w, sender) ==
    calls' = [calls EXCEPT ![w] = Append(calls[w], sender)]

\* the superseded session forgotten
crf_reset_state_no_release(w) ==
    /\ pc[w] = "crf_reset_state"
    /\ Goto(w, "crf_update_state")
    /\ UNCHANGED <<cells, lock, now, arg, ret, pre, calls, uapi>>

crf_reset_state(w) ==
    /\ pc[w] = "crf_reset_state"
    /\ IF state.tag = "InitiationSent"
       THEN device_release(w, state.sender)
       ELSE UNCHANGED calls
    /\ Goto(w, "crf_update_state")
    /\ UNCHANGED <<cells, lock, now, arg, ret, pre, uapi>>

crf_update_state(w) ==
    /\ pc[w] = "crf_update_state"
    /\ state' = Reset
    /\ Goto(w, "crf_update_timestamp")
    /\ UNCHANGED <<timestamp, last_initiation_consumption, lock, now, arg, ret,
                   pre, calls, uapi>>

crf_update_timestamp(w) ==
    /\ pc[w] = "crf_update_timestamp"
    /\ timestamp' = Some(arg[w].timestamp_new)
    /\ Goto(w, "crf_update_lic")
    /\ UNCHANGED <<state, last_initiation_consumption, lock, now, arg, ret,
                   pre, calls, uapi>>

\* the flood marker set only the first time
crf_update_lic_once(w) ==
    /\ pc[w] = "crf_update_lic"
    /\ last_initiation_consumption' =
         IF IsSome(last_initiation_consumption)
         THEN last_initiation_consumption
         ELSE Some(now)
    /\ ret' = [ret EXCEPT ![w] = Ok]
    /\ Goto(w, "crf_drop_lic")
    /\ UNCHANGED <<state, timestamp, lock, now, arg, pre, calls, uapi>>

crf_update_lic(w) ==
    /\ pc[w] = "crf_update_lic"
    /\ last_initiation_consumption' = Some(now)
    /\ ret' = [ret EXCEPT ![w] = Ok]
    /\ Goto(w, "crf_drop_lic")
    /\ UNCHANGED <<state, timestamp, lock, now, arg, pre, calls, uapi>>

\* the guards are dropped in reverse order of declaration
crf_drop_lic(w) ==
    /\ pc[w] = "crf_drop_lic"
    /\ Release(w, "last_initiation_consumption")
    /\ Goto(w, "crf_drop_timestamp")
    /\ UNCHANGED <<cells, now, arg, ret, pre, calls, uapi>>

crf_drop_timestamp(w) ==
    /\ pc[w] = "crf_drop_timestamp"
    /\ Release(w, "timestamp")
    /\ Goto(w, "crf_drop_state")
    /\ UNCHANGED <<cells, now, arg, ret, pre, calls, uapi>>

\* the phase guard is leaked instead of dropped: the call returns with the
\* phase mutex still taken
crf_drop_state_forgotten(w) ==
    /\ pc[w] = "crf_drop_state"
    /\ Return(w)
    /\ UNCHANGED <<cells, lock, now, uapi>>

crf_drop_state(w) ==
    /\ pc[w] = "crf_drop_state"
    /\ Release(w, "state")
    /\ Return(w)
    /\ UNCHANGED <<cells, now, uapi>>

(* ------------------------------- clock -------------------------------- *)

Tick ==
    /\ \E t \in Instants : t > now /\ now' = t
    /\ UNCHANGED <<cells, lock, pc, arg, ret, pre, calls, uapi>>

(* ----------------------- configuration/uapi/get ----------------------- *)

Digit(d) ==
    CASE d = 0 -> "0" [] d = 1 -> "1" [] d = 2 -> "2" [] d = 3 -> "3"
      [] d = 4 -> "4" [] d = 5 -> "5" [] d = 6 -> "6" [] d = 7 -> "7"
      [] d = 8 -> "8" [] d = 9 -> "9"

\* to_string of an unsigned integer: its decimal digits
RECURSIVE to_string(_)
to_string(n) ==
    IF n < 10 THEN Digit(n) ELSE to_string(n \div 10) \o Digit(n % 10)

HexDigit(n) ==
    CASE n < 10 -> Digit(n)
      [] n = 10 -> "a" [] n = 11 -> "b" [] n = 12 -> "c"
      [] n = 13 -> "d" [] n = 14 -> "e" [] n = 15 -> "f"

\* hex::encode: two lowercase digits for every byte
RECURSIVE hex_encode(_)
hex_encode(bytes) ==
    IF bytes = <<>>
    THEN ""
    ELSE HexDigit(Head(bytes) \div 16) \o HexDigit(Head(bytes) % 16)
            \o hex_encode(Tail(bytes))

\* the bytes of an x25519 key; keys are one byte wide in the model
as_bytes(key) == <<key>>

\* IpAddr::to_string of an IPv4 address
ip_to_string(ip) ==
    to_string(ip[1]) \o "." \o to_string(ip[2]) \o "." \o to_string(ip[3])
        \o "." \o to_string(ip[4])

\* the PeerState of peer i with n allowed ips
PeerState(i, n) ==
    [rx_bytes |-> 1000 + i,
     tx_bytes |-> 2000 + i,
     last_handshake_time_sec |-> 3000 + i,
     last_handshake_time_nsec |-> 4000 + i,
     public_key |-> 160 + i,
     preshared_key |-> <<16 * i>>,
     allowed_ips |-> [k \in 1..n |-> <<<<10, 0, i, k>>, 24 + k>>]]

PeerStates == {PeerState(i, n) : i \in 1..MaxPeers, n \in 0..MaxIps}

\* what a Configuration can answer to the getters serialize calls
Configurations ==
    [private_key : {None, Some(StaticSecret_from(113))},
     listen_port : {None, Some(51820)},
     fwmark : {None, Some(0)},
     peers : UNION {[1..k -> PeerStates] : k \in 0..MaxPeers}]

\* an io::Write that takes every write whole (room None), or takes `room`
\* writes and fails every write after them
Writers ==
    {[buf |-> <<>>, room |-> r] : r \in {None} \cup {Some(k) : k \in 0..MaxRoom}}

\* writer.write(chunk)
io_write(wr, chunk) ==
    IF wr.room = None
    THEN [writer |-> [wr EXCEPT !.buf = Append(@, chunk)], ok |-> TRUE]
    ELSE IF Unwrap(wr.room) > 0
         THEN [writer |-> [buf |-> Append(wr.buf, chunk),
                           room |-> Some(Unwrap(wr.room) - 1)],
               ok |-> TRUE]
         ELSE [writer |-> wr, ok |-> FALSE]

\* `?` after a write: the first error ends the sequence
Then(r, chunk) == IF r.ok THEN io_write(r.writer, chunk) ELSE r

\* the closure `write`: key, "=", value, "\n"
write(wr, key, value) ==
    Then(Then(Then(io_write(wr, key), "="), value), "\n")

\* `write(..)?` inside the peer loop
Try(r, key, value) == IF r.ok THEN write(r.writer, key, value) ELSE r

\* the Result of an interface-level write is dropped by `.map`
Ignore(r) == r.writer

serialize_interface(wr, c) ==
    LET a == IF IsSome(c.private_key)
             THEN Ignore(write(wr, "private_key",
                               hex_encode(as_bytes(to_bytes(Unwrap(c.private_key))))))
             ELSE wr
        b == IF IsSome(c.listen_port)
             THEN Ignore(write(a, "listen_port", to_string(Unwrap(c.listen_port))))
             ELSE a
    IN  IF IsSome(c.fwmark)
        THEN Ignore(write(b, "fwmark", to_string(Unwrap(c.fwmark))))
        ELSE b

RECURSIVE serialize_allowed_ips(_, _)
serialize_allowed_ips(r, ips) ==
    IF ~r.ok \/ ips = <<>>
    THEN r
    ELSE serialize_allowed_ips(
             write(r.writer, "allowed_ip",
                   ip_to_string(Head(ips)[1]) \o "/" \o to_string(Head(ips)[2])),
             Tail(ips))

\* the peer loop writing the public key ahead of the counters
serialize_peer_key_first(wr, p) ==
    LET pk == write(wr, "public_key", hex_encode(as_bytes(p.public_key)))
        rx == Try(pk, "rx_bytes", to_string(p.rx_bytes))
        tx == Try(rx, "tx_bytes", to_string(p.tx_bytes))
        sec == Try(tx, "last_handshake_time_sec",
                   to_string(p.last_handshake_time_nsec))
        nsec == Try(sec, "last_handshake_time_nsec",
                    to_string(p.last_handshake_time_nsec))
        psk == Try(nsec, "preshared_key", hex_encode(p.preshared_key))
    IN  serialize_allowed_ips(psk, p.allowed_ips)

serialize_peer(wr, p) ==
    LET rx == write(wr, "rx_bytes", to_string(p.rx_bytes))
        tx == Try(rx, "tx_bytes", to_string(p.tx_bytes))
        sec == Try(tx, "last_handshake_time_sec",
                   to_string(p.last_handshake_time_nsec))
        nsec == Try(sec, "last_handshake_time_nsec",
                    to_string(p.last_handshake_time_nsec))
        pk == Try(nsec, "public_key", hex_encode(as_bytes(p.public_key)))
        psk == Try(pk, "preshared_key", hex_encode(p.preshared_key))
    IN  serialize_allowed_ips(psk, p.allowed_ips)

\* while let Some(p) = peers.pop()
RECURSIVE serialize_peers(_, _)
serialize_peers(r, peers) ==
    IF ~r.ok \/ peers = <<>>
    THEN r
    ELSE serialize_peers(serialize_peer(r.writer, peers[Len(peers)]),
                         SubSeq(peers, 1, Len(peers) - 1))

serialize_result(wr, c) ==
    serialize_peers([writer |-> serialize_interface(wr, c), ok |-> TRUE],
                    c.peers)

serialize ==
    /\ io_result = None
    /\ LET r == serialize_result(writer, config)
       IN  /\ writer' = r.writer
           /\ io_result' = Some(IF r.ok THEN Ok ELSE Err("io"))
    /\ UNCHANGED <<cells, lock, now, pc, arg, ret, pre, calls, config>>

(* --------------------------- specification ---------------------------- *)

Next ==
    \/ \E w \in Workers : call_get_state(w)
    \/ \E w \in Workers, s \in State : call_set_state(w, s)
    \/ \E w \in Workers, t \in TAI64N : call_check_replay_flood(w, t)
    \/ \E w \in Workers : get_state_lock(w)
    \/ \E w \in Workers : get_state_clone(w)
    \/ \E w \in Workers : get_state_unlock(w)
    \/ \E w \in Workers : set_state_lock(w)
    \/ \E w \in Workers : set_state_write(w)
    \/ \E w \in Workers : set_state_unlock(w)
    \/ \E w \in Workers : crf_lock_state(w)
    \/ \E w \in Workers : crf_lock_timestamp(w)
    \/ \E w \in Workers : crf_lock_lic(w)
    \/ \E w \in Workers : crf_check_replay(w)
    \/ \E w \in Workers : crf_check_flood(w)
    \/ \E w \in Workers : crf_reset_state(w)
    \/ \E w \in Workers : crf_update_state(w)
    \/ \E w \in Workers : crf_update_timestamp(w)
    \/ \E w \in Workers : crf_update_lic(w)
    \/ \E w \in Workers : crf_drop_lic(w)
    \/ \E w \in Workers : crf_drop_timestamp(w)
    \/ \E w \in Workers : crf_drop_state(w)
    \/ Tick

\* a status request: serialize is called once with some configuration and
\* some writer
UapiInit ==
    /\ state = Reset
    /\ timestamp = None
    /\ last_initiation_consumption = None
    /\ lock = [m \in Mutexes |-> NoOwner]
    /\ now = 0
    /\ pc = [w \in Workers |-> "idle"]
    /\ arg = [w \in Workers |-> NoCall]
    /\ ret = [w \in Workers |-> Pending]
    /\ pre = [w \in Workers |-> None]
    /\ calls = [w \in Workers |-> <<>>]
    /\ config \in Configurations
    /\ writer \in Writers
    /\ io_result = None

UapiNext == serialize

UapiSpec == UapiInit /\ [][UapiNext]_vars

\* a step of worker w inside the call it has started
WorkerStep(w) ==
    \/ get_state_lock(w)
    \/ get_state_clone(w)
    \/ get_state_unlock(w)
    \/ set_state_lock(w)
    \/ set_state_write(w)
    \/ set_state_unlock(w)
    \/ crf_lock_state(w)
    \/ crf_lock_timestamp(w)
    \/ crf_lock_lic(w)
    \/ crf_check_replay(w)
    \/ crf_check_flood(w)
    \/ crf_reset_state(w)
    \/ crf_update_state(w)
    \/ crf_update_timestamp(w)
    \/ crf_update_lic(w)
    \/ crf_drop_lic(w)
    \/ crf_drop_timestamp(w)
    \/ crf_drop_state(w)

Spec == Init /\ [][Next]_vars

TypeOK ==
    /\ state \in State
    /\ timestamp \in {None} \cup {Some(t) : t \in TAI64N}
    /\ last_initiation_consumption \in {None} \cup {Some(i) : i \in Instants}
    /\ now \in Instants
    /\ \A m \in Mutexes : lock[m] \in Workers \cup {NoOwner}
    /\ \A w \in Workers : \A i \in 1..Len(calls[w]) : calls[w][i] \in Senders

(* ------------------------- auxiliary notions -------------------------- *)

\* check_replay_flood has fixed its result and is dropping its guards
Decided(w) == pc[w] \in {"crf_drop_lic", "crf_drop_timestamp", "crf_drop_state"}

\* check_replay_flood has passed both checks and is about to commit
Admitted(w) == pc[w] \in {"crf_reset_state", "crf_update_state", "crf_update_timestamp", "crf_update_lic"}

Found(w) == Unwrap(pre[w])

Triple ==
    [state |-> state, timestamp |-> timestamp,
     last_initiation_consumption |-> last_initiation_consumption]

\* the candidate of w's call is strictly newer than the timestamp it found
Newer(w) ==
    \/ Found(w).timestamp = None
    \/ compare(Unwrap(Found(w).timestamp), arg[w].timestamp_new)

(* ------------------------------- claims ------------------------------- *)

\* C1: a call of check_replay_flood that returns OldTimestamp or
\* InitiationFlood leaves phase, stored timestamp and flood marker exactly as
\* it found them.
NoMutationOnDenial ==
    \A w \in Workers :
        Decided(w) /\ ret[w].tag = "Err" => Triple = Found(w)

NoMutationOnDenial_Witness ==
    \E w \in Workers :
        /\ pc[w] = "crf_drop_state"
        /\ ret[w] = Err("InitiationFlood")
        /\ state.tag = "InitiationSent"
        /\ IsSome(timestamp)

\* C2: a candidate that is not strictly newer than the stored timestamp is
\* answered with OldTimestamp whatever the clock says, and a call that passed
\* the checks carries a timestamp strictly newer than the stored one, so never
\* the stored one again.
ReplayRejection ==
    \A w \in Workers :
        /\ Decided(w) /\ ~Newer(w) => ret[w] = Err("OldTimestamp")
        /\ pc[w] = "crf_check_flood" \/ Admitted(w) =>
             /\ Newer(w)
             /\ Found(w).timestamp # Some(arg[w].timestamp_new)
        /\ Decided(w) /\ ret[w] = Ok =>
             /\ Newer(w)
             /\ Found(w).timestamp # timestamp

ReplayRejection_Witness ==
    \E w \in Workers :
        /\ Decided(w)
        /\ ret[w] = Err("OldTimestamp")
        /\ timestamp = Some(arg[w].timestamp_new)
        /\ IsSome(last_initiation_consumption)
        /\ elapsed(Unwrap(last_initiation_consumption), now) >= TIME_BETWEEN_INITIATIONS

\* C3: no step takes the stored timestamp back to none or to a smaller value;
\* it changes only in the commit of a check_replay_flood, which leaves it
\* strictly greater than it was.
MonotonicTimestamp ==
    [][ /\ IsSome(timestamp) => IsSome(timestamp')
        /\ timestamp' # timestamp =>
             /\ \E w \in Workers :
                    pc[w] = "crf_update_timestamp" /\ pc'[w] = "crf_update_lic"
             /\ IsSome(timestamp) => compare(Unwrap(timestamp), Unwrap(timestamp'))
        /\ \A w \in Workers :
             pc[w] = "crf_update_timestamp" /\ pc'[w] = "crf_update_lic" =>
                /\ timestamp' = Some(arg[w].timestamp_new)
                /\ timestamp' # timestamp ]_vars

MonotonicTimestamp_Witness ==
    \E w \in Workers :
        /\ Decided(w)
        /\ ret[w] = Ok
        /\ IsSome(Found(w).timestamp)
        /\ compare(Unwrap(Found(w).timestamp), Unwrap(timestamp))

\* C4 as stated: a call that runs entirely within the minimum interval of the
\* last accepted initiation returns InitiationFlood whatever its timestamp.
FloodRejection_Original ==
    \A w \in Workers :
        /\ Decided(w)
        /\ IsSome(Found(w).last_initiation_consumption)
        /\ elapsed(Unwrap(Found(w).last_initiation_consumption), now) < TIME_BETWEEN_INITIATIONS
        => ret[w] = Err("InitiationFlood")

\* C4 amended: within the minimum interval the call is denied, with
\* InitiationFlood when its timestamp is strictly newer and with OldTimestamp
\* when it is not; a call with a strictly newer timestamp whose flood check
\* runs when at least the interval has elapsed is admitted and returns Ok.
FloodRejection_State ==
    \A w \in Workers :
        /\ Decided(w)
           /\ IsSome(Found(w).last_initiation_consumption)
           /\ elapsed(Unwrap(Found(w).last_initiation_consumption), now) < TIME_BETWEEN_INITIATIONS
           => ret[w] = IF Newer(w) THEN Err("InitiationFlood") ELSE Err("OldTimestamp")
        /\ Decided(w) /\ ret[w] = Err("InitiationFlood") => Newer(w)
        /\ Admitted(w) => ret[w] = Pending
        /\ pc[w] = "crf_check_flood" => Newer(w)

FloodRejection_Step ==
    \A w \in Workers :
        pc[w] = "crf_check_flood" /\ pc'[w] # "crf_check_flood" =>
            IF /\ IsSome(last_initiation_consumption)
               /\ elapsed(Unwrap(last_initiation_consumption), now) < TIME_BETWEEN_INITIATIONS
            THEN Decided(w)' /\ ret'[w] = Err("InitiationFlood")
            ELSE Admitted(w)'

FloodRejection_Commit ==
    \A w \in Workers :
        Admitted(w) /\ pc'[w] # pc[w] => Admitted(w)' \/ (Decided(w)' /\ ret'[w] = Ok)

\* C4 amended, whole: the denials within the interval as a state property,
\* the outcome of the flood check and of the commit as step properties.
FloodRejection ==
    /\ []FloodRejection_State
    /\ [][FloodRejection_Step /\ FloodRejection_Commit]_vars

\* the second call is admitted exactly one minimum interval after the first
FloodRejection_Witness ==
    \E w \in Workers :
        /\ Decided(w)
        /\ ret[w] = Ok
        /\ IsSome(Found(w).last_initiation_consumption)
        /\ Unwrap(last_initiation_consumption)
             = Unwrap(Found(w).last_initiation_consumption) + TIME_BETWEEN_INITIATIONS

\* C5: the flood marker changes only in a commit, and two successive commits
\* on the peer are at least the minimum interval apart.
RateBound ==
    [][ last_initiation_consumption' # last_initiation_consumption =>
          /\ \E w \in Workers : pc[w] = "crf_update_lic" /\ pc'[w] = "crf_drop_lic"
          /\ last_initiation_consumption' = Some(now)
          /\ IsSome(last_initiation_consumption) =>
               now - Unwrap(last_initiation_consumption) >= TIME_BETWEEN_INITIATIONS ]_vars

RateBound_Witness ==
    \E w, v \in Workers :
        /\ w # v
        /\ Decided(w)
        /\ ret[w] = Ok
        /\ IsSome(Found(w).last_initiation_consumption)
        /\ pc[v] = "crf_lock_state"

\* C6: a successful check_replay_flood that found the phase InitiationSent
\* with sender S has made exactly one release call, for S, and has left the
\* phase Reset.
SessionReclamation ==
    \A w \in Workers :
        Decided(w) /\ ret[w] = Ok /\ Found(w).state.tag = "InitiationSent" =>
            /\ calls[w] = <<Found(w).state.sender>>
            /\ state = Reset

SessionReclamation_Witness ==
    \E w \in Workers :
        /\ pc[w] = "crf_drop_state"
        /\ ret[w] = Ok
        /\ Found(w).state.tag = "InitiationSent"
        /\ Found(w).state.sender = MaxSender
        /\ calls[w] = <<MaxSender>>

\* C7: the commit of check_replay_flood for candidate T returns Ok and leaves
\* the phase Reset, the stored timestamp T and the flood marker at the clock
\* reading of the commit, which is not before the previous marker; nothing
\* changes from there to the return.
CommitPostState_Step ==
    \A w \in Workers :
        pc[w] = "crf_update_lic" /\ pc'[w] # "crf_update_lic" =>
            /\ ret'[w] = Ok
            /\ state' = Reset
            /\ timestamp' = Some(arg[w].timestamp_new)
            /\ last_initiation_consumption' = Some(now)
            /\ IsSome(last_initiation_consumption) =>
                 Unwrap(last_initiation_consumption') >= Unwrap(last_initiation_consumption)

CommitPostState_State ==
    \A w \in Workers :
        Decided(w) /\ ret[w] = Ok =>
            /\ state = Reset
            /\ timestamp = Some(arg[w].timestamp_new)
            /\ IsSome(last_initiation_consumption)
            /\ Unwrap(last_initiation_consumption) <= now
            /\ IsSome(Found(w).last_initiation_consumption) =>
                 Unwrap(last_initiation_consumption)
                    >= Unwrap(Found(w).last_initiation_consumption)

\* C7, whole: the commit step writes the three cells and returns Ok, and the
\* cells stay so until the call has returned.
CommitPostState ==
    /\ []CommitPostState_State
    /\ [][CommitPostState_Step]_vars

CommitPostState_Witness ==
    \E w \in Workers :
        /\ pc[w] = "crf_drop_state"
        /\ ret[w] = Ok
        /\ Found(w).state.tag = "InitiationSent"
        /\ IsSome(Found(w).last_initiation_consumption)
        /\ timestamp # Found(w).timestamp
        /\ last_initiation_consumption # Found(w).last_initiation_consumption

\* the worker has written some but not all of the three cells of its commit
MidCommit(w) == pc[w] \in {"crf_update_timestamp", "crf_update_lic"}

\* the worker is in a statement that reads or writes one of the three cells
Touching(w) ==
    pc[w] \in {"get_state_clone", "set_state_write", "crf_check_replay",
               "crf_check_flood", "crf_reset_state", "crf_update_state",
               "crf_update_timestamp", "crf_update_lic"}

\* C8: from the phase reset to the flood-marker update a committing worker
\* holds all three guards, and no other worker is in a statement that reads or
\* writes the phase, the timestamp or the flood marker: the others are idle or
\* spinning on the phase lock.
AtomicCommit ==
    \A w \in Workers :
        /\ Admitted(w) => \A m \in Mutexes : lock[m] = w
        /\ Admitted(w) =>
             \A v \in Workers \ {w} :
                 /\ ~Touching(v)
                 /\ pc[v] \in {"idle", "get_state_lock", "set_state_lock", "crf_lock_state"}
        /\ Touching(w) => lock["state"] = w

AtomicCommit_Witness ==
    \E w, v \in Workers :
        /\ w # v
        /\ pc[w] = "crf_update_lic"
        /\ Found(w).state.tag = "InitiationSent"
        /\ state = Reset
        /\ timestamp # Found(w).timestamp
        /\ last_initiation_consumption = Found(w).last_initiation_consumption
        /\ pc[v] = "get_state_lock"

\* C9 as stated: whenever a stored InitiationSent{sender: S} is replaced by a
\* phase that no longer holds S, the replacing call has released S.
SupersededReclaimed_Original ==
    [][ /\ state.tag = "InitiationSent"
        /\ state' # state
        /\ ~(state'.tag = "InitiationSent" /\ state'.sender = state.sender)
        => \E w \in Workers :
              \E i \in 1..Len(calls'[w]) : calls'[w][i] = state.sender ]_vars

\* C9 amended: the phase holds at most one InitiationSent payload; when a
\* successful check_replay_flood replaces a stored InitiationSent{sender: S},
\* S has been released by that call; set_state replaces the phase without any
\* release call, and nothing else changes the phase or calls release.
SupersededReclaimed ==
    [][ /\ state' \in State
        /\ state' # state =>
             \E w \in Workers :
                \/ /\ pc[w] = "crf_update_state" /\ pc'[w] = "crf_update_timestamp"
                   /\ state' = Reset
                   /\ state.tag = "InitiationSent" => calls[w] = <<state.sender>>
                \/ /\ pc[w] = "set_state_write" /\ pc'[w] = "set_state_unlock"
                   /\ state' = arg[w].state_new
                   /\ calls'[w] = <<>>
        /\ \A w \in Workers :
             calls'[w] # calls[w] /\ calls'[w] # <<>> =>
                /\ pc[w] = "crf_reset_state"
                /\ state.tag = "InitiationSent"
                /\ calls'[w] = <<state.sender>> ]_vars

\* set_state has overwritten a stored sender id with another one, and nothing
\* was released
SupersededReclaimed_Witness ==
    \E w \in Workers :
        /\ pc[w] = "set_state_unlock"
        /\ Found(w).state.tag = "InitiationSent"
        /\ state.tag = "InitiationSent"
        /\ state.sender # Found(w).state.sender
        /\ calls[w] = <<>>

\* C10: the peer starts as Peer::new builds it (phase Reset, no timestamp, no
\* flood marker), and a check_replay_flood that finds the peer so succeeds for
\* every candidate and releases nothing.
Fresh(t) ==
    /\ t.state = Reset
    /\ t.timestamp = None
    /\ t.last_initiation_consumption = None

FreshPeer_State ==
    \A w \in Workers :
        arg[w].op = "check_replay_flood" /\ IsSome(pre[w]) /\ Fresh(Found(w)) =>
            /\ ret[w] \in {Pending, Ok}
            /\ Decided(w) => ret[w] = Ok
            /\ calls[w] = <<>>

\* C10, whole: the initial state is the one Peer::new builds, and every
\* check_replay_flood that finds the peer fresh succeeds and releases nothing.
FreshPeer ==
    /\ Fresh(Triple)
    /\ []FreshPeer_State

FreshPeer_Witness ==
    \E w \in Workers :
        /\ pc[w] = "crf_drop_state"
        /\ ret[w] = Ok
        /\ Fresh(Found(w))
        /\ arg[w].timestamp_new = 0
        /\ calls[w] = <<>>

\* C11: set_state returns without an error and leaves the phase exactly the
\* value it was given, whatever phase it found; its write changes neither the
\* stored timestamp nor the flood marker and makes no release call.
ReplacePhase_State ==
    \A w \in Workers :
        pc[w] = "set_state_unlock" =>
            /\ ret[w] = Unit
            /\ state = arg[w].state_new
            /\ timestamp = Found(w).timestamp
            /\ last_initiation_consumption = Found(w).last_initiation_consumption
            /\ calls[w] = <<>>

ReplacePhase_Step ==
    \A w \in Workers :
        pc[w] = "set_state_write" /\ pc'[w] # "set_state_write" =>
            /\ pc'[w] = "set_state_unlock"
            /\ state' = arg[w].state_new
            /\ timestamp' = timestamp
            /\ last_initiation_consumption' = last_initiation_consumption
            /\ calls' = calls

\* C11, whole: the write as a step property, its effect up to the return as a
\* state property.
ReplacePhase ==
    /\ []ReplacePhase_State
    /\ [][ReplacePhase_Step]_vars

\* one handshake in flight overwritten by another, on a peer that has admitted
\* an initiation
ReplacePhase_Witness ==
    \E w \in Workers :
        /\ pc[w] = "set_state_unlock"
        /\ Found(w).state.tag = "InitiationSent"
        /\ state.tag = "InitiationSent"
        /\ state # Found(w).state
        /\ IsSome(timestamp)
        /\ IsSome(last_initiation_consumption)

\* the flood marker w's call found says the minimum interval has not elapsed
WithinInterval(w) ==
    /\ IsSome(Found(w).last_initiation_consumption)
    /\ elapsed(Unwrap(Found(w).last_initiation_consumption), now) < TIME_BETWEEN_INITIATIONS

\* C16: the replay check comes first: a candidate that is not strictly newer
\* gets OldTimestamp also inside the minimum interval, the flood check is
\* reached only by a candidate that passed the replay check, and so
\* InitiationFlood is returned only for a strictly newer candidate.
CheckOrder ==
    \A w \in Workers :
        /\ Decided(w) /\ ~Newer(w) /\ WithinInterval(w) => ret[w] = Err("OldTimestamp")
        /\ Decided(w) /\ ret[w] = Err("InitiationFlood") =>
             Newer(w) /\ IsSome(Found(w).last_initiation_consumption)
        /\ pc[w] = "crf_check_replay" => ret[w] = Pending
        /\ pc[w] = "crf_check_flood" => ret[w] = Pending /\ ~replay_denied(w)

\* the same timestamp again, at once: stale and inside the interval
CheckOrder_Witness ==
    \E w \in Workers :
        /\ Decided(w)
        /\ ret[w] = Err("OldTimestamp")
        /\ timestamp = Some(arg[w].timestamp_new)
        /\ WithinInterval(w)

\* C18: a release call is made only by a check_replay_flood that passed both
\* checks and found the phase InitiationSent, and only for that phase's
\* sender; the releasing call then resets the phase under the same lock, so
\* the id is not there to be released again until set_state stores it anew.
\* A denied call, a call that found Reset, get_state and set_state release
\* nothing.
NoSpuriousRelease ==
    \A w \in Workers :
        /\ calls[w] # <<>> =>
             /\ arg[w].op = "check_replay_flood"
             /\ Found(w).state.tag = "InitiationSent"
             /\ calls[w] = <<Found(w).state.sender>>
             /\ \/ pc[w] \in {"crf_update_state", "crf_update_timestamp", "crf_update_lic"}
                \/ Decided(w) /\ ret[w] = Ok
             /\ \/ pc[w] = "crf_update_state" /\ state = Found(w).state
                \/ state = Reset
             /\ lock["state"] = w
        /\ Decided(w) /\ ret[w].tag = "Err" => calls[w] = <<>>
        /\ Decided(w) /\ Found(w).state = Reset => calls[w] = <<>>
        /\ arg[w].op \in {"get_state", "set_state"} => calls[w] = <<>>

\* a call denied while a handshake is in flight leaves its sender alone
NoSpuriousRelease_Witness ==
    \E w \in Workers :
        /\ pc[w] = "crf_drop_state"
        /\ ret[w] = Err("InitiationFlood")
        /\ state.tag = "InitiationSent"
        /\ calls[w] = <<>>

\* the mutex the worker is about to take, if it is at a lock statement
Wanted(w) ==
    IF pc[w] \in {"get_state_lock", "set_state_lock", "crf_lock_state"} THEN Some("state")
    ELSE IF pc[w] = "crf_lock_timestamp" THEN Some("timestamp")
    ELSE IF pc[w] = "crf_lock_lic" THEN Some("last_initiation_consumption")
    ELSE None

\* the worker spins on a mutex that another holder has
Blocked(w) == IsSome(Wanted(w)) /\ lock[Unwrap(Wanted(w))] # NoOwner

Unfinished(w) == pc[w] # "idle"

\* C14: whenever some call is unfinished, some unfinished worker is not
\* spinning on a held lock and can take its next step; the guards are taken in the order phase,
\* timestamp, flood marker, so the timestamp and flood-marker mutexes are only
\* ever held by the holder of the phase mutex and are free when it asks.
DeadlockFreedom ==
    /\ (\E w \in Workers : Unfinished(w)) =>
          \E w \in Workers : Unfinished(w) /\ ~Blocked(w) /\ ENABLED WorkerStep(w)
    /\ \A w \in Workers :
         /\ lock["timestamp"] = w => lock["state"] = w
         /\ lock["last_initiation_consumption"] = w => lock["timestamp"] = w
         /\ pc[w] \in {"crf_lock_timestamp", "crf_lock_lic"} => ~Blocked(w)
         /\ arg[w].op \in {"get_state", "set_state"} =>
              lock["timestamp"] # w /\ lock["last_initiation_consumption"] # w

\* one worker holds the three guards, every other worker spins on the phase
\* mutex
DeadlockFreedom_Witness ==
    \E w \in Workers :
        /\ \A m \in Mutexes : lock[m] = w
        /\ \A v \in Workers \ {w} : Blocked(v)
        /\ \E v \in Workers \ {w} : pc[v] = "crf_lock_state"

(* ------------------------------ claim C17 ----------------------------- *)

\* the other workers inside check_replay_flood with the candidate of w
Rivals(w) ==
    {v \in Workers \ {w} :
        /\ arg[v].op = "check_replay_flood"
        /\ arg[v].timestamp_new = arg[w].timestamp_new}

\* w's call is past both checks: it is committing or has committed
Passed(w) == Admitted(w) \/ (Decided(w) /\ ret[w] = Ok)

\* C17: when calls of check_replay_flood overlap and carry the same candidate
\* timestamp, at most one of them returns Ok, under every interleaving: no two
\* of them are past the checks together, a call is admitted only while the
\* candidate is not the stored timestamp, and a call that finds its candidate
\* stored decides on the replay denial.
ConcurrentReplay ==
    \A w \in Workers :
        /\ Passed(w) => \A v \in Rivals(w) : ~Passed(v)
        /\ pc[w] \in {"crf_reset_state", "crf_update_state", "crf_update_timestamp"} =>
              timestamp # Some(arg[w].timestamp_new)
        /\ Decided(w) /\ Found(w).timestamp = Some(arg[w].timestamp_new) =>
              ret[w] = Err("OldTimestamp")

\* two calls with one candidate overlap: one has committed it and is dropping
\* its guards, the other is still waiting for the phase mutex
ConcurrentReplay_Witness ==
    \E w \in Workers :
        /\ Decided(w)
        /\ ret[w] = Ok
        /\ timestamp = Some(arg[w].timestamp_new)
        /\ \E v \in Rivals(w) : pc[v] = "crf_lock_state"

(* ------------------------------ claim C15 ----------------------------- *)

\* every worker that is inside a call keeps taking steps; spin::Mutex is a
\* test-and-set lock without a queue, so a waiting worker is only promised
\* further attempts, never that one of them succeeds
FairSpec == Spec /\ \A w \in Workers : WF_vars(WorkerStep(w))

HoldsPhase(w) == lock["state"] = w

\* a call returns: its worker goes from inside a call to idle
ReturnStep == \E w \in Workers : Unfinished(w) /\ pc'[w] = "idle"

LocksFreeOnReturn ==
    \A w \in Workers : ~Unfinished(w) => \A m \in Mutexes : lock[m] # w

\* C15 as stated: under fair scheduling every started call eventually
\* returns, and a returned call holds none of the three locks.
Completion_Original ==
    /\ \A w \in Workers : Unfinished(w) ~> ~Unfinished(w)
    /\ []LocksFreeOnReturn

\* C15, amended: under fair scheduling a call that has taken the phase mutex
\* eventually returns, calls keep returning unless all workers stay idle
\* from some point on, and a returned call holds none of the three locks; a
\* call still waiting for the phase mutex can be overtaken forever.
Completion ==
    /\ \A w \in Workers : HoldsPhase(w) ~> ~Unfinished(w)
    /\ []<><<ReturnStep>>_vars \/ <>[](\A w \in Workers : ~Unfinished(w))
    /\ []LocksFreeOnReturn

\* a call waits for the phase mutex while another call holds all three locks
Completion_Witness ==
    \E w, v \in Workers :
        /\ w # v
        /\ pc[w] \in {"get_state_lock", "set_state_lock", "crf_lock_state"}
        /\ HoldsPhase(v)
        /\ pc[v] = "crf_drop_lic"

(* ------------------------------ claim C12 ----------------------------- *)

\* the peer used by callers that keep the clone get_state gave them while
\* other calls go on
CopyNext ==
    \/ \E w \in Workers : call_get_state(w)
    \/ \E w \in Workers, s \in State : call_set_state(w, s)
    \/ \E w \in Workers, t \in TAI64N : call_check_replay_flood(w, t)
    \/ \E w \in Workers : get_state_lock(w)
    \/ \E w \in Workers : get_state_clone(w)
    \/ \E w \in Workers : get_state_keep(w)
    \/ \E w \in Workers : caller_drop(w)
    \/ \E w \in Workers : set_state_lock(w)
    \/ \E w \in Workers : set_state_write(w)
    \/ \E w \in Workers : set_state_unlock(w)
    \/ \E w \in Workers : crf_lock_state(w)
    \/ \E w \in Workers : crf_lock_timestamp(w)
    \/ \E w \in Workers : crf_lock_lic(w)
    \/ \E w \in Workers : crf_check_replay(w)
    \/ \E w \in Workers : crf_check_flood(w)
    \/ \E w \in Workers : crf_reset_state(w)
    \/ \E w \in Workers : crf_update_state(w)
    \/ \E w \in Workers : crf_update_timestamp(w)
    \/ \E w \in Workers : crf_update_lic(w)
    \/ \E w \in Workers : crf_drop_lic(w)
    \/ \E w \in Workers : crf_drop_timestamp(w)
    \/ \E w \in Workers : crf_drop_state(w)
    \/ Tick

CopySpec == Init /\ [][CopyNext]_vars

Holding(w) == pc[w] = "caller_holds"

ReadPhase_State ==
    \A w \in Workers :
        /\ pc[w] = "get_state_unlock" =>
              /\ ret[w] = Returned(state)
              /\ ret[w] = Returned(Found(w).state)
              /\ Triple = Found(w)
        /\ Holding(w) => ret[w] \in {Returned(st) : st \in State}

ReadPhase_Step ==
    \A w \in Workers :
        /\ pc[w] = "get_state_clone" /\ pc'[w] # pc[w] =>
              /\ ret'[w] = Returned(state)
              /\ ret'[w].st.tag = state.tag
              /\ state.tag = "InitiationSent" =>
                    /\ ret'[w].st.sender = state.sender
                    /\ ret'[w].st.eph_sk = state.eph_sk
                    /\ ret'[w].st.hs = state.hs
                    /\ ret'[w].st.ck = state.ck
        /\ arg[w].op = "get_state" /\ pc'[w] # pc[w] => Triple' = Triple
        /\ pc[w] = "get_state_unlock" /\ Holding(w)' => ret'[w] = ret[w]
        /\ Holding(w) /\ Holding(w)' => ret'[w] = ret[w]

\* C12: get_state returns a value equal to the phase stored at the moment of
\* the read (same variant, sender, ephemeral secret, hash and chaining key)
\* and changes none of phase, timestamp and flood marker; the copy the caller
\* keeps stays as it was returned whatever set_state and check_replay_flood
\* do to the peer afterwards, and the caller dropping its copy leaves the
\* stored phase as it is.
ReadPhase == []ReadPhase_State /\ [][ReadPhase_Step]_vars

\* a caller still holds the copy of a handshake in flight after the stored
\* phase has moved on
ReadPhase_Witness ==
    \E w \in Workers :
        /\ Holding(w)
        /\ ret[w].st.tag = "InitiationSent"
        /\ ret[w] # Returned(state)

(* --------------------------- claims C13, C19 -------------------------- *)

\* the complete lines of an output: key and value of every "key=value\n"
RECURSIVE Lines(_)
Lines(buf) ==
    IF Len(buf) < 4
    THEN <<>>
    ELSE <<[key |-> buf[1], value |-> buf[3]]>> \o Lines(SubSeq(buf, 5, Len(buf)))

WellFormed(buf) ==
    \A i \in 1..Len(buf) :
        /\ i % 4 = 2 => buf[i] = "="
        /\ i % 4 = 0 => buf[i] = "\n"

PeerKeys ==
    <<"rx_bytes", "tx_bytes", "last_handshake_time_sec",
      "last_handshake_time_nsec", "public_key", "preshared_key">>

\* the line of an interface-level field, if the field is present
Present(o, key) == IF IsSome(o) THEN <<[key |-> key, owner |-> 0]>> ELSE <<>>

\* the keys of the lines of peer j of the configuration, in the fixed order
Block(c, j) ==
    [k \in 1..Len(PeerKeys) |-> [key |-> PeerKeys[k], owner |-> j]]
        \o [k \in 1..Len(c.peers[j].allowed_ips) |-> [key |-> "allowed_ip", owner |-> j]]

\* one block per peer, the last peer of the list first
RECURSIVE Blocks(_, _)
Blocks(c, j) == IF j = 0 THEN <<>> ELSE Block(c, j) \o Blocks(c, j - 1)

\* the keys a status reply is to carry, each with the peer it belongs to
Expected(c) ==
    Present(c.private_key, "private_key") \o Present(c.listen_port, "listen_port")
        \o Present(c.fwmark, "fwmark") \o Blocks(c, Len(c.peers))

\* the value of a line is the field of peer p that the key of the line names
\* (the two handshake time lines are the subject of C19)
Owned(line, p) ==
    CASE line.key = "rx_bytes" -> line.value = to_string(p.rx_bytes)
      [] line.key = "tx_bytes" -> line.value = to_string(p.tx_bytes)
      [] line.key = "public_key" -> line.value = hex_encode(as_bytes(p.public_key))
      [] line.key = "preshared_key" ->
            line.value = hex_encode(p.preshared_key)
      [] line.key = "allowed_ip" ->
            \E k \in 1..Len(p.allowed_ips) :
                line.value = ip_to_string(p.allowed_ips[k][1]) \o "/"
                                \o to_string(p.allowed_ips[k][2])
      [] OTHER -> TRUE

\* C13: for every configuration, serialize emits the interface-level lines
\* private_key, listen_port, fwmark (each at most once and only if present)
\* before any peer line, and for each peer its lines in the order rx_bytes,
\* tx_bytes, last_handshake_time_sec, last_handshake_time_nsec, public_key,
\* preshared_key, then that peer's allowed_ip lines, with no line of another
\* peer in between; a writer that fails cuts the output short and changes
\* nothing else.
SerializationOrder ==
    io_result # None =>
        LET L == Lines(writer.buf)
            E == Expected(config)
        IN  /\ WellFormed(writer.buf)
            /\ Len(L) <= Len(E)
            /\ \A i \in 1..Len(L) :
                 /\ L[i].key = E[i].key
                 /\ E[i].owner # 0 => Owned(L[i], config.peers[E[i].owner])
            /\ \A i, j \in 1..Len(L) :
                 i < j /\ E[j].owner = 0 => E[i].owner = 0 /\ L[i].key # L[j].key
            /\ writer.room = None => Len(L) = Len(E) /\ io_result = Some(Ok)

\* a full reply: the three interface-level lines and two different peers, one
\* of them with an allowed ip
SerializationOrder_Witness ==
    /\ io_result = Some(Ok)
    /\ writer.room = None
    /\ IsSome(config.private_key) /\ IsSome(config.listen_port) /\ IsSome(config.fwmark)
    /\ Len(config.peers) = 2
    /\ config.peers[1].public_key # config.peers[2].public_key
    /\ config.peers[2].allowed_ips # <<>>
    /\ Len(Lines(writer.buf)) = Len(Expected(config))

\* C19: for every peer, the value serialize writes on the
\* last_handshake_time_sec line is that peer's seconds value and the value on
\* the last_handshake_time_nsec line is that peer's nanoseconds value.
HandshakeTimeValues ==
    io_result # None =>
        LET L == Lines(writer.buf)
            E == Expected(config)
        IN  \A i \in 1..Len(L) :
                i <= Len(E) /\ E[i].owner # 0 =>
                    LET p == config.peers[E[i].owner]
                    IN  /\ L[i].key = "last_handshake_time_sec" =>
                              L[i].value = to_string(p.last_handshake_time_sec)
                        /\ L[i].key = "last_handshake_time_nsec" =>
                              L[i].value = to_string(p.last_handshake_time_nsec)

====
